---- MODULE Spec2Model ----
(***************************************************************************)
(* Histogram accumulation kernel of the boosting trainer                   *)
(* (shared/ebm_native/BinSumsBoosting.cpp).                                *)
(*                                                                         *)
(* One call of BinSumsBoosting is modelled as a sequential program: the    *)
(* entry point routes to a class-count dispatcher, which walks to one      *)
(* accumulator instance (BinSumsBoostingZeroDimensions or                  *)
(* BinSumsBoostingInternal), which scans the samples and adds into the     *)
(* caller-owned bin buffer.  Floating point values are modelled by         *)
(* integers, storage words by their 64 bits.                               *)
(***************************************************************************)
EXTENDS Integers, Sequences, FiniteSets, TLC

----------------------------------------------------------------------------
(* Bounds of the model.                                                    *)

\* largest sample count of a training set
MaxSamples == 4
\* bin index sequences are the base-2 digits of a pattern 0..MaxIndexPattern
MaxIndexPattern == 15
\* runs with a class count <= MaxRichClasses and a pack width
\* <= MaxRichBitPack get every sample count and every index pattern; the
\* others (dispatch coverage) get one sample
MaxRichClasses == 3
MaxRichBitPack == 3
\* largest runtime class count (above k_cCompilerClassesMax)
MaxRuntimeClasses == 10
\* a decoded index saturates here (beyond every bin buffer of the model)
MaxIndexValue == 255

----------------------------------------------------------------------------
(* Constants and helpers of ebm_internal.hpp, which this file includes.    *)

k_regression == -1
k_dynamicClassification == 0
k_cCompilerClassesMax == 8
k_cBitsForStorageType == 64
k_cItemsPerBitPackMax == 64
k_cItemsPerBitPackMin == 1
k_cItemsPerBitPackDynamic == 0
\* BoosterShell::k_illegalTermIndex, the "no term" sentinel
k_illegalTermIndex == -1
\* EXPAND_BINARY_LOGITS is not defined in the default build
bExpandBinaryLogits == FALSE

IsClassification(cClasses) == 0 <= cClasses
IsRegression(cClasses) == cClasses = k_regression

GetCountScores(cClasses) ==
  IF bExpandBinaryLogits
    THEN (IF cClasses <= 1 THEN 1 ELSE cClasses)
    ELSE (IF cClasses <= 2 THEN 1 ELSE cClasses)

GET_COUNT_CLASSES(cCompilerClasses_, cRuntimeClasses_) ==
  IF cCompilerClasses_ = k_dynamicClassification THEN cRuntimeClasses_ ELSE cCompilerClasses_

GET_ITEMS_PER_BIT_PACK(compilerBitPack_, runtimeBitPack_) ==
  IF compilerBitPack_ = k_cItemsPerBitPackDynamic THEN runtimeBitPack_ ELSE compilerBitPack_

GetCountBits(cItemsBitPacked) == k_cBitsForStorageType \div cItemsBitPacked

GetNextCountItemsBitPacked(cItemsBitPackedPrev) ==
  IF cItemsBitPackedPrev = k_cItemsPerBitPackMin
    THEN k_cItemsPerBitPackDynamic
    ELSE k_cBitsForStorageType \div ((k_cBitsForStorageType \div cItemsBitPackedPrev) + 1)

----------------------------------------------------------------------------
(* StorageDataType: a word is the set of the positions of its one-bits,    *)
(* position 0 the least significant.                                       *)

BitPositions == 0 .. (k_cBitsForStorageType - 1)

Min(a, b) == IF a <= b THEN a ELSE b

\* (~StorageDataType { 0 }) >> (k_cBitsForStorageType - cBits)
MaskBits(cBits) == {b \in BitPositions : b < cBits}

\* maskBits & word
BitAnd(w1, w2) == w1 \cap w2

\* word >> n, for n < k_cBitsForStorageType
ShiftRight(w, n) == {b - n : b \in {x \in w : x >= n}}

\* static_cast<size_t>(word): the value of the bits, saturating at
\* MaxIndexValue
RECURSIVE LowBitsValue(_, _)
LowBitsValue(w, b) ==
  IF 2 ^ b > MaxIndexValue THEN 0
  ELSE (IF b \in w THEN 2 ^ b ELSE 0) + LowBitsValue(w, b + 1)

ToSizeT(w) ==
  IF \E b \in w : 2 ^ Min(b, 30) > MaxIndexValue
    THEN MaxIndexValue
    ELSE Min(LowBitsValue(w, 0), MaxIndexValue)

ZeroWord == {}

----------------------------------------------------------------------------
(* The data the caller hands in: training set, term data and inner bag.    *)
(* Arrays are functions on 0 .. n-1, as the code indexes them.             *)

\* tensor cells of the term's bin buffer
MaxBins == 2

RuntimeClasses == {k_regression} \cup (2 .. MaxRuntimeClasses)

Rich(cls, pack) == cls <= MaxRichClasses /\ pack <= MaxRichBitPack

\* pack widths a class count is run with: every width for the small class
\* counts, the small widths and the largest for the others
BitPacks(cls) ==
  IF cls <= MaxRichClasses THEN 1 .. k_cBitsForStorageType
  ELSE (1 .. MaxRichBitPack) \cup {k_cItemsPerBitPackMax}

\* digit i of the index pattern, in base cBins
PatternIndex(pattern, cBins, i) ==
  IF cBins ^ Min(i, 10) > pattern THEN 0 ELSE (pattern \div (cBins ^ i)) % cBins

\* bit o of a small index value
IndexBit(v, o) == IF 2 ^ Min(o, 30) > v THEN 0 ELSE (v \div (2 ^ o)) % 2

\* Packed word iWord of a term with cItems fields of cBits bits: field f holds
\* the index of sample iWord * cItems + f, least significant field first.
\* The fields after the last sample hold the pattern's further digits.
PackWord(pattern, cBins, cItems, cBits, iWord) ==
  {b \in BitPositions :
     /\ b \div cBits < cItems
     /\ IndexBit(PatternIndex(pattern, cBins, iWord * cItems + (b \div cBits)), b % cBits) = 1}

InputData(pattern, cBins, cItems, n) ==
  [iWord \in 0 .. ((n - 1) \div cItems) |->
     PackWord(pattern, cBins, cItems, GetCountBits(cItems), iWord)]

\* gradient of sample i, score s: distinct values; for multiclass the
\* gradients of one sample sum to zero (softmax residuals)
Gradient(cScores_, i, s) ==
  IF cScores_ = 1 THEN (IF i % 2 = 0 THEN i + 1 ELSE -(i + 1))
  ELSE IF s < cScores_ - 1 THEN i * cScores_ + s + 1
  ELSE -((cScores_ - 1) * (i * cScores_ + 1) + ((cScores_ - 1) * (cScores_ - 2)) \div 2)

Hessian(cScores_, i, s) == 20 + i * cScores_ + s

\* [g0,h0,g1,h1,...] when classification, [g0,g1,...] when regression
GradientsAndHessians(bClassification, cScores_, n) ==
  IF bClassification
    THEN [p \in 0 .. (2 * cScores_ * n - 1) |->
            LET i == (p \div 2) \div cScores_
                s == (p \div 2) % cScores_
            IN  IF p % 2 = 0 THEN Gradient(cScores_, i, s) ELSE Hessian(cScores_, i, s)]
    ELSE [p \in 0 .. (cScores_ * n - 1) |-> Gradient(cScores_, p \div cScores_, p % cScores_)]

\* gradients that do not sum to zero over the scores of the last sample
Uncentered(a, cScores_, n) == [a EXCEPT ![2 * cScores_ * (n - 1)] = @ + 1]

CountOccurrences(n) == [i \in 0 .. (n - 1) |-> (i + 1) % 3]
Weights(n) == [i \in 0 .. (n - 1) |-> 2 * ((i + 1) % 3) + (i \div 3)]

RECURSIVE SumTo(_, _)
SumTo(f, n) == IF n = 0 THEN 0 ELSE f[n - 1] + SumTo(f, n - 1)

\* the bin buffer before the call: zeroed by the caller, or holding the
\* sums of earlier calls of the phase
InitialBin(bZeroed, bClassification, cScores_, iBin) ==
  [ m_cSamples |-> IF bZeroed THEN 0 ELSE 7 + iBin,
    m_weight |-> IF bZeroed THEN 0 ELSE 11 + iBin,
    m_aGradientPairs |->
      [s \in 0 .. (cScores_ - 1) |->
         IF bClassification
           THEN [m_sumGradients |-> IF bZeroed THEN 0 ELSE 13 + s + iBin,
                 m_sumHessians |-> IF bZeroed THEN 0 ELSE 17 + s + iBin]
           ELSE [m_sumGradients |-> IF bZeroed THEN 0 ELSE 13 + s + iBin]] ]

InitialBins(bZeroed, bClassification, cScores_, cBins) ==
  [iBin \in 0 .. (cBins - 1) |-> InitialBin(bZeroed, bClassification, cScores_, iBin)]

----------------------------------------------------------------------------
VARIABLES
  \* build configuration
  bDebug,                 \* NDEBUG is not defined: EBM_ASSERT is compiled in
  k_bUseSIMD,
  \* BoosterCore, Term, TrainingSet and InnerBag as handed in
  cRuntimeClasses, iTerm, bitPack, cTensorBins, cSamples,
  aGradientsAndHessians, aInputData, aCountOccurrences, aWeights, weightTotal,
  \* the bin buffer, its contents when the call began and after the call before
  aBins, aBinsBefore, aBinsPrevCall, iCall,
  \* position in the program and the template arguments of the level reached
  pc, cPossibleClasses, cCompilerClasses, compilerBitPack,
  \* locals of the accumulator
  cScores, cItemsPerBitPack, cBitsPerItemMax, maskBits,
  pCountOccurrences, pWeight, pInputData, pGradientAndHessian,
  pGradientAndHessiansTrueEnd, pGradientAndHessiansExit,
  cItemsRemaining, iTensorBinCombined, iTensorBin, weight, iScore,
  weightTotalDebug, gradientTotalDebug,
  \* history: calls made by the dispatch, samples accumulated, fields decoded per word
  walk, accumulated, cFieldsDecoded,
  \* history: positions of the gradient/hessian array read by the latest score pass
  gradientReads,
  \* calls running on several threads against one bin buffer: where each is,
  \* and whether a write hit a field another thread had read and not yet written
  threads, raced

buildVars == <<bDebug, k_bUseSIMD>>
inputVars == <<cRuntimeClasses, bitPack, cTensorBins, cSamples,
               aGradientsAndHessians, aInputData, aCountOccurrences, aWeights, weightTotal>>
callVars == <<iTerm, aBinsBefore, aBinsPrevCall, iCall>>
templateVars == <<cPossibleClasses, cCompilerClasses, compilerBitPack>>
setupVars == <<cScores, cItemsPerBitPack, cBitsPerItemMax, maskBits, pGradientAndHessiansTrueEnd>>
cursorVars == <<pCountOccurrences, pWeight, pInputData, pGradientAndHessian>>
loopVars == <<pGradientAndHessiansExit, cItemsRemaining, iTensorBinCombined, iTensorBin,
              weight, iScore>>
debugVars == <<weightTotalDebug, gradientTotalDebug>>
historyVars == <<accumulated, cFieldsDecoded>>
readVars == <<gradientReads>>
threadVars == <<threads, raced>>

vars == <<buildVars, inputVars, callVars, templateVars, setupVars, cursorVars, loopVars,
          debugVars, historyVars, readVars, threadVars, aBins, pc, walk>>

Threads == {1, 2}

\* a thread that is not running
ThreadIdle == [iSample |-> 0, iField |-> 0, bLoaded |-> FALSE, value |-> 0]

LocalsInit ==
  /\ cPossibleClasses = 0 /\ cCompilerClasses = 0 /\ compilerBitPack = 0
  /\ cScores = 0 /\ cItemsPerBitPack = 0 /\ cBitsPerItemMax = 0 /\ maskBits = ZeroWord
  /\ pCountOccurrences = 0 /\ pWeight = 0 /\ pInputData = 0 /\ pGradientAndHessian = 0
  /\ pGradientAndHessiansTrueEnd = 0 /\ pGradientAndHessiansExit = 0
  /\ cItemsRemaining = 0 /\ iTensorBinCombined = ZeroWord /\ iTensorBin = 0
  /\ weight = 0 /\ iScore = 0
  /\ weightTotalDebug = 0 /\ gradientTotalDebug = 0
  /\ walk = << >> /\ accumulated = << >> /\ cFieldsDecoded = << >>
  /\ gradientReads = << >>

Init ==
  \E dbg \in BOOLEAN, simd \in BOOLEAN, term \in {k_illegalTermIndex, 0},
     cls \in RuntimeClasses :
    \E pack \in BitPacks(cls) :
    \E n \in (IF Rich(cls, pack) THEN 1 .. MaxSamples ELSE {1}),
       pattern \in (IF Rich(cls, pack) /\ term # k_illegalTermIndex
                      THEN 0 .. MaxIndexPattern ELSE {0}),
       bZeroed \in (IF Rich(cls, pack) THEN BOOLEAN ELSE {TRUE}) :
      \E cBins \in (IF term # k_illegalTermIndex THEN {MaxBins}
                     ELSE IF Rich(cls, pack) THEN {1, MaxBins} ELSE {1}),
         bCentered \in (IF Rich(cls, pack) /\ cls > 2 /\ bZeroed
                          THEN BOOLEAN ELSE {TRUE}) :
      LET cSc == GetCountScores(cls)
      IN
      /\ bDebug = dbg /\ k_bUseSIMD = simd
      /\ cRuntimeClasses = cls /\ iTerm = term /\ bitPack = pack
      /\ cTensorBins = cBins /\ cSamples = n
      /\ aGradientsAndHessians =
           IF bCentered THEN GradientsAndHessians(IsClassification(cls), cSc, n)
           ELSE Uncentered(GradientsAndHessians(IsClassification(cls), cSc, n), cSc, n)
      /\ aInputData = InputData(pattern, cBins, pack, n)
      /\ aCountOccurrences = CountOccurrences(n)
      /\ aWeights = Weights(n)
      /\ weightTotal = SumTo(Weights(n), n)
      /\ aBins = InitialBins(bZeroed, IsClassification(cls), cSc, cBins)
      /\ aBinsBefore = aBins
      /\ aBinsPrevCall = aBins
      /\ iCall = 1
      /\ pc = "BinSumsBoosting"
      /\ LocalsInit
      /\ threads = [t \in Threads |-> ThreadIdle]
      /\ raced = FALSE

----------------------------------------------------------------------------
(* Calls and assertions.                                                   *)

\* the call of an accumulator or dispatcher level: control moves there and
\* the call is recorded
Call(func, rec) ==
  /\ pc' = func
  /\ walk' = Append(walk, [func |-> func] @@ rec)

\* EBM_ASSERT halts the program in a debug build and is compiled out otherwise
Failed(bCondition) == bDebug /\ ~bCondition

Abort ==
  /\ pc' = "abort"
  /\ UNCHANGED <<templateVars, walk>>

----------------------------------------------------------------------------
(* Entry point.                                                            *)

BinSumsBoosting ==
  /\ pc = "BinSumsBoosting"
  /\ IF iTerm = k_illegalTermIndex
       THEN IF IsClassification(cRuntimeClasses)
              THEN /\ cPossibleClasses' = 2
                   /\ Call("BinSumsBoostingZeroDimensionsTarget", [cPossibleClasses |-> 2])
                   /\ UNCHANGED <<cCompilerClasses, compilerBitPack>>
              ELSE IF Failed(IsRegression(cRuntimeClasses)) THEN Abort
              ELSE /\ cCompilerClasses' = k_regression
                   /\ Call("BinSumsBoostingZeroDimensions", [cCompilerClasses |-> k_regression])
                   /\ UNCHANGED <<cPossibleClasses, compilerBitPack>>
       ELSE IF k_bUseSIMD
         THEN IF IsClassification(cRuntimeClasses)
                THEN /\ cPossibleClasses' = 2
                     /\ Call("BinSumsBoostingSIMDTarget", [cPossibleClasses |-> 2])
                     /\ UNCHANGED <<cCompilerClasses, compilerBitPack>>
                ELSE IF Failed(IsRegression(cRuntimeClasses)) THEN Abort
                ELSE /\ cCompilerClasses' = k_regression
                     /\ compilerBitPack' = k_cItemsPerBitPackMax
                     /\ Call("BinSumsBoostingSIMDPacking",
                             [cCompilerClasses |-> k_regression,
                              compilerBitPack |-> k_cItemsPerBitPackMax])
                     /\ UNCHANGED cPossibleClasses
         ELSE IF IsClassification(cRuntimeClasses)
                THEN /\ cPossibleClasses' = 2
                     /\ Call("BinSumsBoostingNormalTarget", [cPossibleClasses |-> 2])
                     /\ UNCHANGED <<cCompilerClasses, compilerBitPack>>
                ELSE IF Failed(IsRegression(cRuntimeClasses)) THEN Abort
                ELSE /\ cCompilerClasses' = k_regression
                     /\ compilerBitPack' = k_cItemsPerBitPackDynamic
                     /\ Call("BinSumsBoostingInternal",
                             [cCompilerClasses |-> k_regression,
                              compilerBitPack |-> k_cItemsPerBitPackDynamic])
                     /\ UNCHANGED cPossibleClasses
  /\ UNCHANGED <<threadVars, buildVars, readVars, inputVars, callVars, setupVars, cursorVars, loopVars,
                 debugVars, historyVars, aBins>>

----------------------------------------------------------------------------
(* Class-count dispatch of the zero-dimension family.                      *)

\* the assertions of a level below the terminal one
TargetAsserts ==
  /\ IsClassification(cRuntimeClasses)
  /\ cRuntimeClasses <= k_cCompilerClassesMax

\* the assertions of the terminal level
TargetDynamicAsserts ==
  /\ IsClassification(cRuntimeClasses)
  /\ k_cCompilerClassesMax < cRuntimeClasses

BinSumsBoostingZeroDimensionsTarget ==
  /\ pc = "BinSumsBoostingZeroDimensionsTarget"
  /\ cPossibleClasses <= k_cCompilerClassesMax
  /\ IF Failed(TargetAsserts) THEN Abort
     ELSE IF cPossibleClasses = cRuntimeClasses
       THEN /\ cCompilerClasses' = cPossibleClasses
            /\ Call("BinSumsBoostingZeroDimensions", [cCompilerClasses |-> cPossibleClasses])
            /\ UNCHANGED <<cPossibleClasses, compilerBitPack>>
       ELSE /\ cPossibleClasses' = cPossibleClasses + 1
            /\ Call("BinSumsBoostingZeroDimensionsTarget",
                    [cPossibleClasses |-> cPossibleClasses + 1])
            /\ UNCHANGED <<cCompilerClasses, compilerBitPack>>
  /\ UNCHANGED <<threadVars, buildVars, readVars, inputVars, callVars, setupVars, cursorVars, loopVars,
                 debugVars, historyVars, aBins>>

BinSumsBoostingZeroDimensionsTargetDynamic ==
  /\ pc = "BinSumsBoostingZeroDimensionsTarget"
  /\ cPossibleClasses = k_cCompilerClassesMax + 1
  /\ IF Failed(TargetDynamicAsserts) THEN Abort
     ELSE /\ cCompilerClasses' = k_dynamicClassification
          /\ Call("BinSumsBoostingZeroDimensions",
                  [cCompilerClasses |-> k_dynamicClassification])
          /\ UNCHANGED <<cPossibleClasses, compilerBitPack>>
  /\ UNCHANGED <<threadVars, buildVars, readVars, inputVars, callVars, setupVars, cursorVars, loopVars,
                 debugVars, historyVars, aBins>>

----------------------------------------------------------------------------
(* Class-count dispatch of the scalar indexed family.                      *)

BinSumsBoostingNormalTarget ==
  /\ pc = "BinSumsBoostingNormalTarget"
  /\ cPossibleClasses <= k_cCompilerClassesMax
  /\ IF Failed(TargetAsserts) THEN Abort
     ELSE IF cPossibleClasses = cRuntimeClasses
       THEN /\ cCompilerClasses' = cPossibleClasses
            /\ compilerBitPack' = k_cItemsPerBitPackDynamic
            /\ Call("BinSumsBoostingInternal",
                    [cCompilerClasses |-> cPossibleClasses,
                     compilerBitPack |-> k_cItemsPerBitPackDynamic])
            /\ UNCHANGED cPossibleClasses
       ELSE /\ cPossibleClasses' = cPossibleClasses + 1
            /\ Call("BinSumsBoostingNormalTarget", [cPossibleClasses |-> cPossibleClasses + 1])
            /\ UNCHANGED <<cCompilerClasses, compilerBitPack>>
  /\ UNCHANGED <<threadVars, buildVars, readVars, inputVars, callVars, setupVars, cursorVars, loopVars,
                 debugVars, historyVars, aBins>>

BinSumsBoostingNormalTargetDynamic ==
  /\ pc = "BinSumsBoostingNormalTarget"
  /\ cPossibleClasses = k_cCompilerClassesMax + 1
  /\ IF Failed(TargetDynamicAsserts) THEN Abort
     ELSE /\ cCompilerClasses' = k_dynamicClassification
          /\ compilerBitPack' = k_cItemsPerBitPackDynamic
          /\ Call("BinSumsBoostingInternal",
                  [cCompilerClasses |-> k_dynamicClassification,
                   compilerBitPack |-> k_cItemsPerBitPackDynamic])
          /\ UNCHANGED cPossibleClasses
  /\ UNCHANGED <<threadVars, buildVars, readVars, inputVars, callVars, setupVars, cursorVars, loopVars,
                 debugVars, historyVars, aBins>>

----------------------------------------------------------------------------
(* Class-count and pack-width dispatch of the vectorization-friendly       *)
(* family.                                                                 *)

BinSumsBoostingSIMDTarget ==
  /\ pc = "BinSumsBoostingSIMDTarget"
  /\ cPossibleClasses <= k_cCompilerClassesMax
  /\ IF Failed(TargetAsserts) THEN Abort
     ELSE IF cPossibleClasses = cRuntimeClasses
       THEN /\ cCompilerClasses' = cPossibleClasses
            /\ compilerBitPack' = k_cItemsPerBitPackMax
            /\ Call("BinSumsBoostingSIMDPacking",
                    [cCompilerClasses |-> cPossibleClasses,
                     compilerBitPack |-> k_cItemsPerBitPackMax])
            /\ UNCHANGED cPossibleClasses
       ELSE /\ cPossibleClasses' = cPossibleClasses + 1
            /\ Call("BinSumsBoostingSIMDTarget", [cPossibleClasses |-> cPossibleClasses + 1])
            /\ UNCHANGED <<cCompilerClasses, compilerBitPack>>
  /\ UNCHANGED <<threadVars, buildVars, readVars, inputVars, callVars, setupVars, cursorVars, loopVars,
                 debugVars, historyVars, aBins>>

BinSumsBoostingSIMDTargetDynamic ==
  /\ pc = "BinSumsBoostingSIMDTarget"
  /\ cPossibleClasses = k_cCompilerClassesMax + 1
  /\ IF Failed(TargetDynamicAsserts) THEN Abort
     ELSE /\ cCompilerClasses' = k_dynamicClassification
          /\ compilerBitPack' = k_cItemsPerBitPackMax
          /\ Call("BinSumsBoostingSIMDPacking",
                  [cCompilerClasses |-> k_dynamicClassification,
                   compilerBitPack |-> k_cItemsPerBitPackMax])
          /\ UNCHANGED cPossibleClasses
  /\ UNCHANGED <<threadVars, buildVars, readVars, inputVars, callVars, setupVars, cursorVars, loopVars,
                 debugVars, historyVars, aBins>>

\* the term's pack width is within the storage word
PackingAsserts == 1 <= bitPack /\ bitPack <= k_cBitsForStorageType

\* faulty variant: the first instance that is not wider than the term's pack width
PackMatchesAtMost(compilerBitPack_, runtimeBitPack) == compilerBitPack_ <= runtimeBitPack

\* if(compilerBitPack == runtimeBitPack)
PackMatches(compilerBitPack_, runtimeBitPack) == compilerBitPack_ = runtimeBitPack

BinSumsBoostingSIMDPacking ==
  /\ pc = "BinSumsBoostingSIMDPacking"
  /\ compilerBitPack # k_cItemsPerBitPackDynamic
  /\ IF Failed(PackingAsserts) THEN Abort
     ELSE IF PackMatches(compilerBitPack, bitPack)
       THEN /\ Call("BinSumsBoostingInternal",
                    [cCompilerClasses |-> cCompilerClasses, compilerBitPack |-> compilerBitPack])
            /\ UNCHANGED templateVars
       ELSE /\ compilerBitPack' = GetNextCountItemsBitPacked(compilerBitPack)
            /\ Call("BinSumsBoostingSIMDPacking",
                    [cCompilerClasses |-> cCompilerClasses,
                     compilerBitPack |-> GetNextCountItemsBitPacked(compilerBitPack)])
            /\ UNCHANGED <<cPossibleClasses, cCompilerClasses>>
  /\ UNCHANGED <<threadVars, buildVars, readVars, inputVars, callVars, setupVars, cursorVars, loopVars,
                 debugVars, historyVars, aBins>>

BinSumsBoostingSIMDPackingDynamic ==
  /\ pc = "BinSumsBoostingSIMDPacking"
  /\ compilerBitPack = k_cItemsPerBitPackDynamic
  /\ IF Failed(PackingAsserts) THEN Abort
     ELSE /\ Call("BinSumsBoostingInternal",
                  [cCompilerClasses |-> cCompilerClasses,
                   compilerBitPack |-> k_cItemsPerBitPackDynamic])
          /\ UNCHANGED templateVars
  /\ UNCHANGED <<threadVars, buildVars, readVars, inputVars, callVars, setupVars, cursorVars, loopVars,
                 debugVars, historyVars, aBins>>

----------------------------------------------------------------------------
(* Memory reads.  A read inside an array yields the element; a read past   *)
(* its end is undefined and yields whatever lies there.                    *)

GarbageValues == {-1, 1}

ReadAt(a, p) == IF p \in DOMAIN a THEN {a[p]} ELSE GarbageValues

\* (bClassification ? 2 : 1)
Stride(bClassification) == IF bClassification THEN 2 ELSE 1

\* pGradientAndHessian + (bClassification ? 2 : 1) * cScores * cSamples
GradientsEnd(bClassification, cScores_, cSamples_) ==
  Stride(bClassification) * cScores_ * cSamples_

\* the weight total agrees with the inner bag's within 0.1 percent
WeightTotalAsserts ==
  /\ 0 < weightTotalDebug
  /\ weightTotalDebug * 999 <= weightTotal * 1000
  /\ weightTotal * 1000 <= 1001 * weightTotalDebug

----------------------------------------------------------------------------
(* BinSumsBoostingZeroDimensions<cCompilerClasses>::Func                   *)

\* faulty variant: the gradient is added without its weight
ZeroAddGradientUnweighted(sumGradients, gradient, weight_) == sumGradients + gradient

\* pBin->SetCountSamples(pBin->GetCountSamples() + cOccurences)
ZeroAddCountSamples(cBinSamples, cOccurences) == cBinSamples + cOccurences
\* pBin->SetWeight(pBin->GetWeight() + weight)
ZeroAddWeight(binWeight, weight_) == binWeight + weight_
\* pGradientPair[iScore].m_sumGradients += gradient * weight
ZeroAddGradient(sumGradients, gradient, weight_) == sumGradients + gradient * weight_
\* *(pGradientAndHessian + 1)
ZeroHessianAt(pGradient) == pGradient + 1
\* SetHess(GetHess() + hessian * weight)
ZeroAddHessian(sumHessians, hessian, weight_) == sumHessians + hessian * weight_

ZeroDimensionsEnter ==
  /\ pc = "BinSumsBoostingZeroDimensions"
  /\ LET bClassification == IsClassification(cCompilerClasses)
         cClasses == GET_COUNT_CLASSES(cCompilerClasses, cRuntimeClasses)
     IN
     /\ cScores' = GetCountScores(cClasses)
     /\ pGradientAndHessiansTrueEnd' = GradientsEnd(bClassification, cScores', cSamples)
  /\ IF Failed(0 < cSamples)
       THEN pc' = "abort"
       ELSE pc' = "zero_sample"
  /\ pCountOccurrences' = 0
  /\ pWeight' = 0
  /\ pGradientAndHessian' = 0
  /\ weightTotalDebug' = 0
  /\ UNCHANGED <<threadVars, buildVars, readVars, inputVars, callVars, templateVars, loopVars, historyVars,
                 cItemsPerBitPack, cBitsPerItemMax, maskBits, pInputData,
                 gradientTotalDebug, aBins, walk>>

\* one sample: its occurrence count and weight go into the single bin
ZeroDimensionsSample ==
  /\ pc = "zero_sample"
  /\ \E cOccurences \in ReadAt(aCountOccurrences, pCountOccurrences),
        w \in ReadAt(aWeights, pWeight) :
       /\ weight' = w
       /\ weightTotalDebug' = IF bDebug THEN weightTotalDebug + w ELSE weightTotalDebug
       /\ aBins' = [aBins EXCEPT
                      ![0].m_cSamples = ZeroAddCountSamples(@, cOccurences),
                      ![0].m_weight = ZeroAddWeight(@, w)]
  /\ accumulated' = Append(accumulated, pCountOccurrences)
  /\ pCountOccurrences' = pCountOccurrences + 1
  /\ pWeight' = pWeight + 1
  /\ iScore' = 0
  /\ gradientTotalDebug' = 0
  /\ pc' = "zero_score"
  /\ UNCHANGED <<threadVars, buildVars, readVars, inputVars, callVars, templateVars, setupVars,
                 pInputData, pGradientAndHessian, pGradientAndHessiansExit, cItemsRemaining,
                 iTensorBinCombined, iTensorBin, cFieldsDecoded, walk>>

\* one pass of the score loop
ZeroDimensionsScore ==
  /\ pc = "zero_score"
  /\ LET bClassification == IsClassification(cCompilerClasses) IN
     /\ \E gradient \in ReadAt(aGradientsAndHessians, pGradientAndHessian) :
          /\ gradientTotalDebug' =
               IF bDebug THEN gradientTotalDebug + gradient ELSE gradientTotalDebug
          /\ IF bClassification
               THEN \E hessian \in ReadAt(aGradientsAndHessians,
                                          ZeroHessianAt(pGradientAndHessian)) :
                      aBins' = [aBins EXCEPT
                        ![0].m_aGradientPairs[iScore].m_sumGradients =
                           ZeroAddGradient(@, gradient, weight),
                        ![0].m_aGradientPairs[iScore].m_sumHessians =
                           ZeroAddHessian(@, hessian, weight)]
               ELSE aBins' = [aBins EXCEPT
                        ![0].m_aGradientPairs[iScore].m_sumGradients =
                           ZeroAddGradient(@, gradient, weight)]
     /\ pGradientAndHessian' = pGradientAndHessian + Stride(bClassification)
  /\ gradientReads' =
       IF IsClassification(cCompilerClasses)
         THEN <<pGradientAndHessian, ZeroHessianAt(pGradientAndHessian)>>
         ELSE <<pGradientAndHessian>>
  /\ iScore' = iScore + 1
  /\ pc' = IF iScore' < cScores THEN "zero_score" ELSE "zero_sample_end"
  /\ UNCHANGED <<threadVars, buildVars, inputVars, callVars, templateVars, setupVars, historyVars,
                 pCountOccurrences, pWeight, pInputData, pGradientAndHessiansExit,
                 cItemsRemaining, iTensorBinCombined, iTensorBin, weight,
                 weightTotalDebug, walk>>

\* faulty variant: binary classification with one logit is not exempted
GradientSumAssertsBinaryToo(bClassification) ==
  \/ ~bClassification
  \/ gradientTotalDebug = 0

\* the gradients of a sample sum to zero, except for regression and for
\* binary classification with one logit
GradientSumAsserts(bClassification) ==
  \/ ~bClassification
  \/ (cRuntimeClasses = 2 /\ ~bExpandBinaryLogits)
  \/ gradientTotalDebug = 0

ZeroDimensionsSampleEnd ==
  /\ pc = "zero_sample_end"
  /\ pc' = IF Failed(GradientSumAsserts(IsClassification(cCompilerClasses))) THEN "abort"
           ELSE IF pGradientAndHessiansTrueEnd # pGradientAndHessian THEN "zero_sample"
           ELSE "zero_exit"
  /\ UNCHANGED <<threadVars, buildVars, readVars, inputVars, callVars, templateVars, setupVars, cursorVars,
                 loopVars, debugVars, historyVars, aBins, walk>>

ZeroDimensionsExit ==
  /\ pc = "zero_exit"
  /\ pc' = IF Failed(WeightTotalAsserts) THEN "abort" ELSE "done"
  /\ UNCHANGED <<threadVars, buildVars, readVars, inputVars, callVars, templateVars, setupVars, cursorVars,
                 loopVars, debugVars, historyVars, aBins, walk>>

----------------------------------------------------------------------------
(* BinSumsBoostingInternal<cCompilerClasses, compilerBitPack>::Func        *)

\* static_cast<size_t>(maskBits & iTensorBinCombined)
TensorBin(maskBits_, iTensorBinCombined_) == ToSizeT(BitAnd(maskBits_, iTensorBinCombined_))

\* faulty variant: the offset is not scaled by the bin size, so it stays
\* inside the first bin
IndexBinUnscaled(iTensorBin_) == 0

\* IndexBin(aBins, cBytesPerBin * iTensorBin): the bin the sample adds into
IndexBin(iTensorBin_) == iTensorBin_

\* faulty variant: the word is not advanced to its next field
ShiftedWordsNotAdvanced(iTensorBinCombined_, cBits) == {iTensorBinCombined_}

\* iTensorBinCombined >>= cBitsPerItemMax; a shift by the whole width of the
\* word is undefined: the word is left as it is or cleared
ShiftedWords(iTensorBinCombined_, cBits) ==
  IF cBits < k_cBitsForStorageType
    THEN {ShiftRight(iTensorBinCombined_, cBits)}
    ELSE {iTensorBinCombined_, ZeroWord}

\* faulty variant: a training set that exactly fills one word takes the loop
OnlyOneWordStrict(cSamples_, cItemsPerBitPack_) == cSamples_ < cItemsPerBitPack_

\* if(cSamples <= cItemsPerBitPack) goto one_last_loop
OnlyOneWord(cSamples_, cItemsPerBitPack_) == cSamples_ <= cItemsPerBitPack_

\* faulty variant: the exit position is computed as if there were one score
ExitPositionOneScore(pTrueEnd, bClassification, cScores_, cSamples_, cItemsPerBitPack_) ==
  pTrueEnd - Stride(bClassification) * (((cSamples_ - 1) % cItemsPerBitPack_) + 1)

\* pGradientAndHessiansTrueEnd - (bClassification ? 2 : 1) * cScores *
\*    ((cSamples - 1) % cItemsPerBitPack + 1)
ExitPosition(pTrueEnd, bClassification, cScores_, cSamples_, cItemsPerBitPack_) ==
  pTrueEnd - Stride(bClassification) * cScores_ * (((cSamples_ - 1) % cItemsPerBitPack_) + 1)

\* faulty variant: the items left are counted without the gradient/hessian stride
LastWordItemsNoStride(pTrueEnd, pGradient, bClassification, cScores_) ==
  (pTrueEnd - pGradient) \div cScores_

\* (pGradientAndHessiansTrueEnd - pGradientAndHessian) / (cScores * (bClassification ? 2 : 1))
LastWordItems(pTrueEnd, pGradient, bClassification, cScores_) ==
  (pTrueEnd - pGradient) \div (cScores_ * Stride(bClassification))

\* faulty variant: a sample counts once whatever its occurrence count
AddCountSamplesOnce(cBinSamples, cOccurences) == cBinSamples + 1
\* faulty variant: the weight is set, not added
AddWeightOverwrites(binWeight, weight_) == weight_
\* faulty variant: the hessian is read from the gradient's slot
HessianAtGradient(pGradient) == pGradient

\* faulty variant: the gradient is added without its weight
AddGradientUnweighted(sumGradients, gradient, weight_) == sumGradients + gradient

\* pBin->SetCountSamples(pBin->GetCountSamples() + cOccurences)
AddCountSamples(cBinSamples, cOccurences) == cBinSamples + cOccurences
\* pBin->SetWeight(pBin->GetWeight() + weight)
AddWeight(binWeight, weight_) == binWeight + weight_
\* pGradientPair[iScore].m_sumGradients += gradient * weight
AddGradient(sumGradients, gradient, weight_) == sumGradients + gradient * weight_
\* *(pGradientAndHessian + 1)
HessianAt(pGradient) == pGradient + 1
\* SetHess(GetHess() + hessian * weight)
AddHessian(sumHessians, hessian, weight_) == sumHessians + hessian * weight_

\* a word read past the end of the packed data
GarbageWords == {ZeroWord, MaskBits(k_cBitsForStorageType)}

ReadWordAt(a, p) == IF p \in DOMAIN a THEN {a[p]} ELSE GarbageWords

InternalEnter ==
  /\ pc = "BinSumsBoostingInternal"
  /\ LET bClassification == IsClassification(cCompilerClasses)
         cClasses == GET_COUNT_CLASSES(cCompilerClasses, cRuntimeClasses)
         cItems == GET_ITEMS_PER_BIT_PACK(compilerBitPack, bitPack)
         pTrueEnd == GradientsEnd(bClassification, GetCountScores(cClasses), cSamples)
         pExit == ExitPosition(pTrueEnd, bClassification, GetCountScores(cClasses),
                               cSamples, cItems)
     IN
     /\ cScores' = GetCountScores(cClasses)
     /\ cItemsPerBitPack' = cItems
     /\ cBitsPerItemMax' = GetCountBits(cItems)
     /\ maskBits' = MaskBits(GetCountBits(cItems))
     /\ pGradientAndHessiansTrueEnd' = pTrueEnd
     /\ cItemsRemaining' = cSamples
     /\ IF Failed(/\ 1 <= cItems /\ cItems <= k_cBitsForStorageType
                  /\ 1 <= GetCountBits(cItems)
                  /\ GetCountBits(cItems) <= k_cBitsForStorageType
                  /\ 0 < cSamples)
          THEN /\ pc' = "abort"
               /\ pGradientAndHessiansExit' = pTrueEnd
          ELSE IF OnlyOneWord(cSamples, cItems)
            THEN /\ pc' = "one_last_loop"
                 /\ pGradientAndHessiansExit' = pTrueEnd
            ELSE /\ pGradientAndHessiansExit' = pExit
                 /\ pc' = IF Failed(0 < pExit /\ pExit < pTrueEnd) THEN "abort" ELSE "do_word"
  /\ pCountOccurrences' = 0
  /\ pWeight' = 0
  /\ pInputData' = 0
  /\ pGradientAndHessian' = 0
  /\ weightTotalDebug' = 0
  /\ UNCHANGED <<threadVars, buildVars, readVars, inputVars, callVars, templateVars, historyVars,
                 iTensorBinCombined, iTensorBin, weight, iScore,
                 gradientTotalDebug, aBins, walk>>

\* top of the loop over full words
InternalWord ==
  /\ pc = "do_word"
  /\ cItemsRemaining' = cItemsPerBitPack
  /\ pc' = "one_last_loop"
  /\ UNCHANGED <<threadVars, buildVars, readVars, inputVars, callVars, templateVars, setupVars, cursorVars,
                 debugVars, historyVars, pGradientAndHessiansExit, iTensorBinCombined,
                 iTensorBin, weight, iScore, aBins, walk>>

\* one_last_loop: fetch the next packed word
InternalLoadWord ==
  /\ pc = "one_last_loop"
  /\ \E w \in ReadWordAt(aInputData, pInputData) : iTensorBinCombined' = w
  /\ pInputData' = pInputData + 1
  /\ cFieldsDecoded' = Append(cFieldsDecoded, 0)
  /\ pc' = "do_item"
  /\ UNCHANGED <<threadVars, buildVars, readVars, inputVars, callVars, templateVars, setupVars, debugVars,
                 pCountOccurrences, pWeight, pGradientAndHessian, pGradientAndHessiansExit,
                 cItemsRemaining, iTensorBin, weight, iScore, accumulated, aBins, walk>>

\* one sample: decode its bin, add its occurrence count and weight
InternalItem ==
  /\ pc = "do_item"
  /\ LET iBin == TensorBin(maskBits, iTensorBinCombined) IN
     /\ iTensorBin' = iBin
     /\ IF iBin \notin DOMAIN aBins
          THEN \* ASSERT_BIN_OK; without it the write lands outside the buffer
               /\ pc' = IF bDebug THEN "abort" ELSE "corrupt"
               /\ UNCHANGED <<cursorVars, debugVars, historyVars, weight, iScore, aBins>>
          ELSE /\ \E cOccurences \in ReadAt(aCountOccurrences, pCountOccurrences),
                     w \in ReadAt(aWeights, pWeight) :
                    /\ weight' = w
                    /\ weightTotalDebug' =
                         IF bDebug THEN weightTotalDebug + w ELSE weightTotalDebug
                    /\ aBins' = [aBins EXCEPT
                                   ![IndexBin(iBin)].m_cSamples =
                                      AddCountSamples(@, cOccurences),
                                   ![IndexBin(iBin)].m_weight = AddWeight(@, w)]
               /\ accumulated' = Append(accumulated, pCountOccurrences)
               /\ cFieldsDecoded' =
                    [cFieldsDecoded EXCEPT ![Len(cFieldsDecoded)] = @ + 1]
               /\ pCountOccurrences' = pCountOccurrences + 1
               /\ pWeight' = pWeight + 1
               /\ iScore' = 0
               /\ gradientTotalDebug' = 0
               /\ pc' = "do_score"
               /\ UNCHANGED <<pInputData, pGradientAndHessian>>
  /\ UNCHANGED <<threadVars, buildVars, readVars, inputVars, callVars, templateVars, setupVars,
                 pGradientAndHessiansExit, cItemsRemaining, iTensorBinCombined, walk>>

\* one pass of the score loop
InternalScore ==
  /\ pc = "do_score"
  /\ LET bClassification == IsClassification(cCompilerClasses) IN
     /\ \E gradient \in ReadAt(aGradientsAndHessians, pGradientAndHessian) :
          /\ gradientTotalDebug' =
               IF bDebug THEN gradientTotalDebug + gradient ELSE gradientTotalDebug
          /\ IF bClassification
               THEN \E hessian \in ReadAt(aGradientsAndHessians,
                                          HessianAt(pGradientAndHessian)) :
                      aBins' = [aBins EXCEPT
                        ![IndexBin(iTensorBin)].m_aGradientPairs[iScore].m_sumGradients =
                           AddGradient(@, gradient, weight),
                        ![IndexBin(iTensorBin)].m_aGradientPairs[iScore].m_sumHessians =
                           AddHessian(@, hessian, weight)]
               ELSE aBins' = [aBins EXCEPT
                        ![IndexBin(iTensorBin)].m_aGradientPairs[iScore].m_sumGradients =
                           AddGradient(@, gradient, weight)]
     /\ pGradientAndHessian' = pGradientAndHessian + Stride(bClassification)
  /\ gradientReads' =
       IF IsClassification(cCompilerClasses)
         THEN <<pGradientAndHessian, HessianAt(pGradientAndHessian)>>
         ELSE <<pGradientAndHessian>>
  /\ iScore' = iScore + 1
  /\ pc' = IF iScore' < cScores THEN "do_score" ELSE "item_end"
  /\ UNCHANGED <<threadVars, buildVars, inputVars, callVars, templateVars, setupVars, historyVars,
                 pCountOccurrences, pWeight, pInputData, pGradientAndHessiansExit,
                 cItemsRemaining, iTensorBinCombined, iTensorBin, weight,
                 weightTotalDebug, walk>>

\* the end of the item loop's body, and the tests of both loops
InternalItemEnd ==
  /\ pc = "item_end"
  /\ IF Failed(GradientSumAsserts(IsClassification(cCompilerClasses)))
       THEN /\ pc' = "abort"
            /\ UNCHANGED <<iTensorBinCombined, cItemsRemaining>>
       ELSE /\ \E w \in ShiftedWords(iTensorBinCombined, cBitsPerItemMax) :
                 iTensorBinCombined' = w
            /\ cItemsRemaining' = cItemsRemaining - 1
            /\ pc' = IF cItemsRemaining' # 0 THEN "do_item"
                     ELSE IF pGradientAndHessiansExit # pGradientAndHessian THEN "do_word"
                     ELSE "last_word"
  /\ UNCHANGED <<threadVars, buildVars, readVars, inputVars, callVars, templateVars, setupVars, cursorVars,
                 debugVars, historyVars, pGradientAndHessiansExit, iTensorBin, weight,
                 iScore, aBins, walk>>

\* after the loop: samples left over go through the loop body once more
InternalLastWord ==
  /\ pc = "last_word"
  /\ IF pGradientAndHessiansTrueEnd # pGradientAndHessian
       THEN LET bClassification == IsClassification(cCompilerClasses)
                cLeft == pGradientAndHessiansTrueEnd - pGradientAndHessian
                cItems == LastWordItems(pGradientAndHessiansTrueEnd, pGradientAndHessian,
                                        bClassification, cScores)
            IN
            /\ cItemsRemaining' = cItems
            /\ pGradientAndHessiansExit' = pGradientAndHessiansTrueEnd
            /\ pc' = IF Failed(/\ cLeft % (cScores * Stride(bClassification)) = 0
                               /\ 0 < cItems
                               /\ cItems <= cItemsPerBitPack)
                       THEN "abort" ELSE "one_last_loop"
       ELSE /\ pc' = "internal_exit"
            /\ UNCHANGED <<cItemsRemaining, pGradientAndHessiansExit>>
  /\ UNCHANGED <<threadVars, buildVars, readVars, inputVars, callVars, templateVars, setupVars, cursorVars,
                 debugVars, historyVars, iTensorBinCombined, iTensorBin, weight,
                 iScore, aBins, walk>>

InternalExit ==
  /\ pc = "internal_exit"
  /\ pc' = IF Failed(WeightTotalAsserts) THEN "abort" ELSE "done"
  /\ UNCHANGED <<threadVars, buildVars, readVars, inputVars, callVars, templateVars, setupVars, cursorVars,
                 loopVars, debugVars, historyVars, aBins, walk>>

----------------------------------------------------------------------------
(* The caller.  The bin buffer persists across the calls of a phase; after *)
(* a pass without a term over a single-cell tensor the caller repeats the  *)
(* pass through the term's packed indices, on the buffer as it was.        *)

NextCall ==
  /\ pc = "done"
  /\ iCall = 1
  /\ iTerm = k_illegalTermIndex
  /\ cTensorBins = 1
  /\ iCall' = 2
  /\ iTerm' = 0
  /\ aBinsPrevCall' = aBins
  /\ aBins' = aBinsBefore
  /\ pc' = "BinSumsBoosting"
  /\ cPossibleClasses' = 0 /\ cCompilerClasses' = 0 /\ compilerBitPack' = 0
  /\ cScores' = 0 /\ cItemsPerBitPack' = 0 /\ cBitsPerItemMax' = 0 /\ maskBits' = ZeroWord
  /\ pCountOccurrences' = 0 /\ pWeight' = 0 /\ pInputData' = 0 /\ pGradientAndHessian' = 0
  /\ pGradientAndHessiansTrueEnd' = 0 /\ pGradientAndHessiansExit' = 0
  /\ cItemsRemaining' = 0 /\ iTensorBinCombined' = ZeroWord /\ iTensorBin' = 0
  /\ weight' = 0 /\ iScore' = 0
  /\ weightTotalDebug' = 0 /\ gradientTotalDebug' = 0
  /\ walk' = << >> /\ accumulated' = << >> /\ cFieldsDecoded' = << >>
  /\ gradientReads' = << >>
  /\ UNCHANGED <<threadVars, buildVars, inputVars, aBinsBefore>>

----------------------------------------------------------------------------
Next ==
  \/ BinSumsBoosting
  \/ BinSumsBoostingZeroDimensionsTarget
  \/ BinSumsBoostingZeroDimensionsTargetDynamic
  \/ BinSumsBoostingNormalTarget
  \/ BinSumsBoostingNormalTargetDynamic
  \/ BinSumsBoostingSIMDTarget
  \/ BinSumsBoostingSIMDTargetDynamic
  \/ BinSumsBoostingSIMDPacking
  \/ BinSumsBoostingSIMDPackingDynamic
  \/ ZeroDimensionsEnter
  \/ ZeroDimensionsSample
  \/ ZeroDimensionsScore
  \/ ZeroDimensionsSampleEnd
  \/ ZeroDimensionsExit
  \/ InternalEnter
  \/ InternalWord
  \/ InternalLoadWord
  \/ InternalItem
  \/ InternalScore
  \/ InternalItemEnd
  \/ InternalLastWord
  \/ InternalExit
  \/ NextCall

Spec == Init /\ [][Next]_vars

----------------------------------------------------------------------------
(* What the properties speak of, stated from the inputs alone.             *)

\* the call runs the indexed accumulator / the zero-dimension accumulator
Indexed == iTerm # k_illegalTermIndex
RunClassification == IsClassification(cRuntimeClasses)
RunScores == GetCountScores(cRuntimeClasses)

\* (word >> ((i mod k) * bitsPerItem)) & mask, for sample i
DecodedIndex(i) ==
  LET cBits == k_cBitsForStorageType \div bitPack
  IN  ToSizeT(BitAnd(MaskBits(cBits),
                     ShiftRight(aInputData[i \div bitPack], (i % bitPack) * cBits)))

SamplesOfBin(iBin) == {i \in 0 .. (cSamples - 1) : DecodedIndex(i) = iBin}

RECURSIVE SumOver(_, _)
SumOver(S, f) ==
  IF S = {} THEN 0 ELSE LET x == CHOOSE y \in S : TRUE IN f[x] + SumOver(S \ {x}, f)

\* flat positions of the gradient and the hessian of sample i, score s
GradientPosition(i, s) ==
  IF RunClassification THEN 2 * (i * RunScores + s) ELSE i * RunScores + s
HessianPosition(i, s) == 2 * (i * RunScores + s) + 1

WeightedGradients(s) ==
  [i \in 0 .. (cSamples - 1) |-> aWeights[i] * aGradientsAndHessians[GradientPosition(i, s)]]

BufferWasZeroed ==
  \A iBin \in DOMAIN aBinsBefore :
    /\ aBinsBefore[iBin].m_cSamples = 0
    /\ aBinsBefore[iBin].m_weight = 0
    /\ \A s \in DOMAIN aBinsBefore[iBin].m_aGradientPairs :
         /\ aBinsBefore[iBin].m_aGradientPairs[s].m_sumGradients = 0
         /\ RunClassification => aBinsBefore[iBin].m_aGradientPairs[s].m_sumHessians = 0

BinSamples == [iBin \in DOMAIN aBins |-> aBins[iBin].m_cSamples]
BinWeights == [iBin \in DOMAIN aBins |-> aBins[iBin].m_weight]

----------------------------------------------------------------------------
\* C1: in the indexed accumulator the bin index of sample i is field
\* (i mod k) of packed word floor(i / k), least significant field first; and
\* after the call every bin holds what it held before plus, over exactly the
\* samples decoded to it, the occurrence counts in m_cSamples, the weights in
\* m_weight and weight * gradient in each m_sumGradients.
C1_IndexedAccumulation ==
  /\ (Indexed /\ pc \in {"do_score", "item_end"}) =>
        iTensorBin = DecodedIndex(pCountOccurrences - 1)
  /\ (Indexed /\ pc = "done") =>
        \A iBin \in DOMAIN aBins :
          /\ aBins[iBin].m_cSamples =
               aBinsBefore[iBin].m_cSamples + SumOver(SamplesOfBin(iBin), aCountOccurrences)
          /\ aBins[iBin].m_weight =
               aBinsBefore[iBin].m_weight + SumOver(SamplesOfBin(iBin), aWeights)
          /\ \A s \in 0 .. (RunScores - 1) :
               aBins[iBin].m_aGradientPairs[s].m_sumGradients =
                 aBinsBefore[iBin].m_aGradientPairs[s].m_sumGradients
                   + SumOver(SamplesOfBin(iBin), WeightedGradients(s))

\* an indexed pass over two full words and a partial one, into a buffer
\* that held sums before, with one bin getting several samples
C1_Witness ==
  /\ Indexed /\ pc = "done" /\ iCall = 1
  /\ bitPack = 2 /\ cSamples = 3
  /\ ~BufferWasZeroed
  /\ Cardinality(SamplesOfBin(1)) = 2
  /\ Cardinality(SamplesOfBin(0)) = 1

\* one pass of a score loop, seen from the inputs: what it adds and where
HessianStep ==
  pc \in {"do_score", "zero_score"} =>
    LET i == pCountOccurrences - 1
        iBin == IF pc = "zero_score" THEN 0 ELSE iTensorBin
        pairBefore == aBins[iBin].m_aGradientPairs[iScore]
        pairAfter == aBins'[iBin].m_aGradientPairs[iScore]
    IN
    /\ pairAfter.m_sumGradients - pairBefore.m_sumGradients =
         aWeights[i] * aGradientsAndHessians[GradientPosition(i, iScore)]
    /\ IF RunClassification
         THEN /\ pairAfter.m_sumHessians - pairBefore.m_sumHessians =
                   aWeights[i] * aGradientsAndHessians[HessianPosition(i, iScore)]
              /\ gradientReads' = <<GradientPosition(i, iScore), HessianPosition(i, iScore)>>
         ELSE /\ DOMAIN pairAfter = {"m_sumGradients"}
              /\ gradientReads' = <<GradientPosition(i, iScore)>>
    /\ \A other \in DOMAIN aBins \ {iBin} : aBins'[other] = aBins[other]

\* C2: for classification the hessian added for sample i, score s is
\* weight[i] times the element at flat position 2*(i*scoreCount+s)+1, right
\* after the gradient at 2*(i*scoreCount+s); for regression the gradient is
\* at i*scoreCount+s and no hessian sum is written.  Both accumulators.
C2_HessianInterleaved == [][HessianStep]_vars

\* three classes, two samples accumulated into the same bin
C2_Witness ==
  /\ Indexed /\ pc = "done"
  /\ cRuntimeClasses = 3 /\ cSamples = 2
  /\ Cardinality(SamplesOfBin(1)) = 2
  /\ aBins[1].m_aGradientPairs[2].m_sumHessians =
       aBinsBefore[1].m_aGradientPairs[2].m_sumHessians
         + aWeights[0] * aGradientsAndHessians[5] + aWeights[1] * aGradientsAndHessians[11]

\* words of the packed data, and fields the samples fill in word iWord
WordCount == ((cSamples - 1) \div bitPack) + 1
FieldsOfWord(iWord) ==
  IF iWord < WordCount - 1 THEN bitPack ELSE ((cSamples - 1) % bitPack) + 1

\* C3: in the indexed accumulator every word but the last has exactly k
\* fields decoded, the last exactly ((sampleCount - 1) mod k) + 1, and no
\* read of the gradient/hessian, occurrence or weight array is at or past
\* its end.
C3_TailHandling ==
  Indexed =>
    /\ Len(cFieldsDecoded) <= WordCount
    /\ \A j \in 1 .. Len(cFieldsDecoded) :
         /\ cFieldsDecoded[j] <= FieldsOfWord(j - 1)
         /\ (j < Len(cFieldsDecoded) \/ pc \in {"last_word", "internal_exit", "done"})
               => cFieldsDecoded[j] = FieldsOfWord(j - 1)
    /\ pc = "done" => Len(cFieldsDecoded) = WordCount
    /\ pc = "do_item" =>
         /\ pCountOccurrences < cSamples
         /\ pWeight < cSamples
    /\ \A j \in 1 .. Len(gradientReads) :
         gradientReads[j] < Stride(RunClassification) * RunScores * cSamples

\* a full word then a partly filled last word whose upper field holds an
\* index no sample has
C3_Witness ==
  /\ Indexed /\ pc = "done"
  /\ bitPack = 2 /\ cSamples = 3
  /\ cFieldsDecoded = <<2, 1>>
  /\ SamplesOfBin(1) = {}
  /\ ToSizeT(BitAnd(MaskBits(32), ShiftRight(aInputData[1], 32))) = 1

\* C4: after one pass into a buffer the caller zeroed, the bins'
\* m_cSamples add up to the sum of the inner bag's occurrence counts.
C4_CountSamplesTotal ==
  (pc = "done" /\ BufferWasZeroed) =>
     SumOver(DOMAIN aBins, BinSamples) = SumOver(DOMAIN aCountOccurrences, aCountOccurrences)

C4_Witness ==
  /\ Indexed /\ pc = "done" /\ BufferWasZeroed
  /\ cSamples = MaxSamples
  /\ aBins[0].m_cSamples > 0 /\ aBins[1].m_cSamples > 0

\* C5: after one pass into a zeroed buffer, the bins' m_weight add up to
\* the inner bag's weight total.
C5_WeightTotal ==
  (pc = "done" /\ BufferWasZeroed) => SumOver(DOMAIN aBins, BinWeights) = weightTotal

C5_Witness ==
  /\ Indexed /\ pc = "done" /\ BufferWasZeroed
  /\ cSamples = MaxSamples /\ bitPack = 3
  /\ aBins[0].m_weight > 0 /\ aBins[1].m_weight > 0

\* C6: on a single-cell tensor with every index 0, the indexed accumulator
\* leaves bin 0 exactly as the zero-dimension accumulator does from the same
\* data and the same initial contents.
C6_ZeroDimensionAgrees ==
  (pc = "done" /\ iCall = 2) =>
     /\ \A i \in 0 .. (cSamples - 1) : DecodedIndex(i) = 0
     /\ DOMAIN aBins = {0}
     /\ aBins[0] = aBinsPrevCall[0]

C6_Witness ==
  /\ pc = "done" /\ iCall = 2
  /\ cRuntimeClasses = 3 /\ cSamples = 3 /\ bitPack = 2
  /\ ~BufferWasZeroed
  /\ aBins[0] # aBinsBefore[0]

----------------------------------------------------------------------------
(* The calls the dispatch made.                                            *)

IsAccumulatorCall(c) ==
  c.func \in {"BinSumsBoostingZeroDimensions", "BinSumsBoostingInternal"}
IsInternalCall(c) == c.func = "BinSumsBoostingInternal"
IsPackingCall(c) == c.func = "BinSumsBoostingSIMDPacking"

AccumulatorCalls == SelectSeq(walk, IsAccumulatorCall)
InternalCalls == SelectSeq(walk, IsInternalCall)
PackingCalls == SelectSeq(walk, IsPackingCall)

CallEnded == pc \in {"done", "abort", "corrupt"}

\* the instance the class count selects
SelectedClasses ==
  IF cRuntimeClasses = k_regression THEN k_regression
  ELSE IF cRuntimeClasses <= k_cCompilerClassesMax THEN cRuntimeClasses
  ELSE k_dynamicClassification

\* C7: in each family, regression runs the regression instance, class count
\* c in 2..K_max the instance fixed at c, c > K_max the dynamic instance;
\* exactly one accumulator instance runs, once, and it computes with the
\* runtime class count.
C7_ClassCountDispatch ==
  /\ Len(AccumulatorCalls) <= 1
  /\ \A j \in 1 .. Len(AccumulatorCalls) :
       /\ AccumulatorCalls[j].cCompilerClasses = SelectedClasses
       /\ AccumulatorCalls[j].func =
            IF Indexed THEN "BinSumsBoostingInternal" ELSE "BinSumsBoostingZeroDimensions"
       /\ GET_COUNT_CLASSES(AccumulatorCalls[j].cCompilerClasses, cRuntimeClasses)
            = cRuntimeClasses
  /\ \A j \in 1 .. Len(PackingCalls) : PackingCalls[j].cCompilerClasses = SelectedClasses
  /\ CallEnded => Len(AccumulatorCalls) = 1

\* the items-per-word values with an instance of their own: 64, 32, 21, 16,
\* 12, 10, 9, 8 and 7 down to 1
EnumeratedItemsPerBitPack == {64, 32, 21, 16, 12, 10, 9} \cup (1 .. 8)

MaxOf(S) == CHOOSE x \in S : \A y \in S : y <= x

\* C8: for a real term, with the vector flag set the walk starts at the
\* largest items-per-word value, steps through the enumerated values in
\* decreasing order down to 1, runs the instance whose value equals the
\* term's pack width and the dynamic one only if none does; without the flag
\* the dynamic instance runs directly.  Either way the accumulator computes
\* with the term's pack width.
C8_PackWidthRouting ==
  Indexed =>
    /\ pc \in {"BinSumsBoostingSIMDPacking", "BinSumsBoostingInternal"} =>
         /\ ~k_bUseSIMD =>
              /\ PackingCalls = << >>
              /\ \A j \in 1 .. Len(InternalCalls) :
                   InternalCalls[j].compilerBitPack = k_cItemsPerBitPackDynamic
         /\ k_bUseSIMD =>
              /\ PackingCalls # << >>
              /\ PackingCalls[1].compilerBitPack = k_cItemsPerBitPackMax
              /\ \A j \in 1 .. (Len(PackingCalls) - 1) :
                   LET a == PackingCalls[j].compilerBitPack
                       b == PackingCalls[j + 1].compilerBitPack
                       smaller == {e \in EnumeratedItemsPerBitPack : e < a}
                   IN  /\ a \in EnumeratedItemsPerBitPack
                       /\ a # bitPack
                       /\ b = IF smaller = {} THEN k_cItemsPerBitPackDynamic
                              ELSE MaxOf(smaller)
              /\ \A j \in 1 .. Len(InternalCalls) :
                   /\ InternalCalls[j].compilerBitPack =
                        PackingCalls[Len(PackingCalls)].compilerBitPack
                   /\ InternalCalls[j].compilerBitPack =
                        IF bitPack \in EnumeratedItemsPerBitPack
                          THEN bitPack ELSE k_cItemsPerBitPackDynamic
    /\ pc \in {"do_word", "one_last_loop", "do_item", "do_score", "item_end",
               "last_word", "internal_exit", "done"} =>
         /\ cItemsPerBitPack = bitPack
         /\ walk[Len(walk)] =
              [func |-> "BinSumsBoostingInternal",
               cCompilerClasses |-> SelectedClasses,
               compilerBitPack |->
                 IF k_bUseSIMD /\ bitPack \in EnumeratedItemsPerBitPack
                   THEN bitPack ELSE k_cItemsPerBitPackDynamic]

\* the walk passes 64 and 32 and stops at the instance for 21 items per
\* word, which accumulates
C8_Witness ==
  /\ Indexed /\ k_bUseSIMD /\ pc = "done"
  /\ bitPack = 21
  /\ Len(PackingCalls) = 3
  /\ InternalCalls # << >>
  /\ cItemsPerBitPack = 21

----------------------------------------------------------------------------
(* The plain per-sample loop: for i in 0 .. sampleCount-1, decode field    *)
(* (i mod k) of word floor(i / k) and accumulate sample i.                 *)

AccumulateSample(bins, i) ==
  [bins EXCEPT ![DecodedIndex(i)] =
     [ m_cSamples |-> @.m_cSamples + aCountOccurrences[i],
       m_weight |-> @.m_weight + aWeights[i],
       m_aGradientPairs |->
         [s \in 0 .. (RunScores - 1) |->
            IF RunClassification
              THEN [m_sumGradients |->
                      @.m_aGradientPairs[s].m_sumGradients
                        + aWeights[i] * aGradientsAndHessians[GradientPosition(i, s)],
                    m_sumHessians |->
                      @.m_aGradientPairs[s].m_sumHessians
                        + aWeights[i] * aGradientsAndHessians[HessianPosition(i, s)]]
              ELSE [m_sumGradients |->
                      @.m_aGradientPairs[s].m_sumGradients
                        + aWeights[i] * aGradientsAndHessians[GradientPosition(i, s)]]] ]]

RECURSIVE PlainLoop(_, _, _)
PlainLoop(bins, i, n) ==
  IF i >= n THEN bins ELSE PlainLoop(AccumulateSample(bins, i), i + 1, n)

\* C9: the indexed accumulator's full-word loop, jump into the loop body and
\* re-entry for the last word leave the bin buffer exactly as the plain
\* per-sample loop does (and, sample for sample, as its first iterations do).
C9_PlainLoopEquivalent ==
  Indexed =>
    /\ pc = "item_end" =>
         /\ pCountOccurrences <= cSamples
         /\ aBins = PlainLoop(aBinsBefore, 0, pCountOccurrences)
    /\ pc = "done" => aBins = PlainLoop(aBinsBefore, 0, cSamples)

\* the three shapes of the control structure: one word entered by the jump,
\* full words only, full words and a re-entry for the last word
C9_Witness ==
  /\ Indexed /\ pc = "done" /\ ~BufferWasZeroed
  /\ cRuntimeClasses = 3
  /\ cSamples = 3 /\ bitPack = 2
  /\ cFieldsDecoded = <<2, 1>>
  /\ aBins[0] # aBinsBefore[0] /\ aBins[1] # aBinsBefore[1]

----------------------------------------------------------------------------
(* Termination: a measure that every step of an accumulator decreases.     *)

LoopPcs == {"do_word", "one_last_loop", "do_item", "do_score", "item_end", "last_word",
            "internal_exit", "zero_sample", "zero_score", "zero_sample_end", "zero_exit"}

PcRank(p) ==
  CASE p \in {"item_end", "zero_sample_end"} -> 6
    [] p = "last_word" -> 5
    [] p = "do_word" -> 4
    [] p = "one_last_loop" -> 3
    [] p \in {"do_item", "zero_sample"} -> 2
    [] p \in {"do_score", "zero_score", "internal_exit", "zero_exit"} -> 1
    [] OTHER -> 0

RunEnd == Stride(RunClassification) * RunScores * cSamples

Rank == 8 * (RunEnd - pGradientAndHessian) + 8 * (cSamples - pCountOccurrences) + PcRank(pc)

AccumulatorProgress ==
  pc \in LoopPcs => (Rank' < Rank /\ Rank' >= 0)

AccumulatorOrder ==
  /\ Len(accumulated) <= cSamples
  /\ accumulated = [j \in 1 .. Len(accumulated) |-> j - 1]
  /\ pc \in LoopPcs =>
       /\ pGradientAndHessiansTrueEnd = RunEnd
       /\ pGradientAndHessian <= pGradientAndHessiansTrueEnd
       /\ ENABLED Next
  /\ (Indexed /\ pc \in LoopPcs) =>
       /\ pGradientAndHessian <= pGradientAndHessiansExit
       /\ pGradientAndHessiansExit <= pGradientAndHessiansTrueEnd
  /\ pc = "done" =>
       /\ Len(accumulated) = cSamples
       /\ pGradientAndHessian = RunEnd
       /\ pCountOccurrences = cSamples /\ pWeight = cSamples
       /\ Indexed => pInputData = WordCount

\* C10: the call terminates (every step of an accumulator lowers a measure
\* that stays non-negative, and a step is always possible until it returns);
\* at the end every sample index has been accumulated exactly once, in
\* increasing order, the gradient/hessian cursor is exactly at the end of the
\* array and ceil(sampleCount / itemsPerWord) words were consumed; the cursor
\* never passes the position the loop exit tests compare it with.
C10_Terminates == [][AccumulatorProgress]_vars /\ []AccumulatorOrder

C10_Witness ==
  /\ Indexed /\ pc = "done"
  /\ cRuntimeClasses = 3 /\ cSamples = MaxSamples /\ bitPack = 3
  /\ accumulated = [j \in 1 .. MaxSamples |-> j - 1]
  /\ pInputData = 2

----------------------------------------------------------------------------
(* What a call writes.                                                     *)

\* the arrays handed in stay as they are
InputsUnchanged ==
  /\ aGradientsAndHessians' = aGradientsAndHessians
  /\ aInputData' = aInputData
  /\ aCountOccurrences' = aCountOccurrences
  /\ aWeights' = aWeights
  /\ weightTotal' = weightTotal

\* bins the call may add into: the first one without a term, those some
\* sample decodes to with a term
BinsOfSamples ==
  IF Indexed THEN {DecodedIndex(i) : i \in 0 .. (cSamples - 1)} ELSE {0}

\* index held by the fields of the last word that no sample fills
UnusedFieldIndexes ==
  {ToSizeT(BitAnd(MaskBits(k_cBitsForStorageType \div bitPack),
                  ShiftRight(aInputData[WordCount - 1],
                             f * (k_cBitsForStorageType \div bitPack)))) :
     f \in FieldsOfWord(WordCount - 1) .. (bitPack - 1)}

BinsFrame ==
  /\ DOMAIN aBins = DOMAIN aBinsBefore
  /\ pc # "corrupt"
  /\ \A iBin \in DOMAIN aBins \ BinsOfSamples : aBins[iBin] = aBinsBefore[iBin]

\* C11: a call leaves the gradient/hessian array, the packed words and the
\* inner bag's occurrence and weight arrays unchanged; without a term it
\* changes the first bin of the buffer only; with a term it leaves every bin
\* unchanged that no sample decodes to, also one whose index only the unused
\* upper fields of the last word hold.
C11_Frame == [][InputsUnchanged]_vars /\ []BinsFrame

\* with a term: three samples in words of two fields, all in bin 0, and the
\* unused upper field of the last word holding index 1
C11_Witness ==
  /\ Indexed /\ pc = "done"
  /\ bitPack = 2 /\ cSamples = 3
  /\ BinsOfSamples = {0}
  /\ UnusedFieldIndexes = {1}
  /\ aBins[0] # aBinsBefore[0]
  /\ aBins[1] = aBinsBefore[1]

----------------------------------------------------------------------------
(* Two calls of the indexed accumulator running at once on one bin buffer. *)
(* Each update of a bin field is a read of the field, an addition and a    *)
(* write of the result; nothing orders the steps of one thread with those  *)
(* of the other.                                                           *)

\* largest sample count and index pattern of the concurrent runs
MaxThreadSamples == 2
MaxThreadPattern == 1

\* fields a sample adds into, in the order the code does: the sample count,
\* the weight, then per score the gradient sum and (classification) the
\* hessian sum
FieldCount == 2 + Stride(RunClassification) * RunScores

FieldScore(iField) == (iField - 2) \div Stride(RunClassification)
FieldIsHessian(iField) ==
  iField >= 2 /\ RunClassification /\ (iField - 2) % 2 = 1

\* the bin a thread's current sample adds into
ThreadBin(t) == IndexBin(DecodedIndex(threads[t].iSample))

\* GetCountSamples(), GetWeight(), m_sumGradients, GetHess(): the read
FieldValue(bin, iField) ==
  IF iField = 0 THEN bin.m_cSamples
  ELSE IF iField = 1 THEN bin.m_weight
  ELSE IF FieldIsHessian(iField)
    THEN bin.m_aGradientPairs[FieldScore(iField)].m_sumHessians
  ELSE bin.m_aGradientPairs[FieldScore(iField)].m_sumGradients

\* the value written back: what was read plus the sample's contribution
FieldSum(value, i, iField) ==
  LET pGradient == GradientPosition(i, FieldScore(iField)) IN
  IF iField = 0 THEN AddCountSamples(value, aCountOccurrences[i])
  ELSE IF iField = 1 THEN AddWeight(value, aWeights[i])
  ELSE IF FieldIsHessian(iField)
    THEN AddHessian(value, aGradientsAndHessians[HessianAt(pGradient)], aWeights[i])
  ELSE AddGradient(value, aGradientsAndHessians[pGradient], aWeights[i])

\* SetCountSamples(), SetWeight(), m_sumGradients =, SetHess(): the write
FieldWrite(bins, iBin, iField, v) ==
  IF iField = 0 THEN [bins EXCEPT ![iBin].m_cSamples = v]
  ELSE IF iField = 1 THEN [bins EXCEPT ![iBin].m_weight = v]
  ELSE IF FieldIsHessian(iField)
    THEN [bins EXCEPT ![iBin].m_aGradientPairs[FieldScore(iField)].m_sumHessians = v]
  ELSE [bins EXCEPT ![iBin].m_aGradientPairs[FieldScore(iField)].m_sumGradients = v]

sequentialVars ==
  <<buildVars, inputVars, callVars, templateVars, setupVars, cursorVars, loopVars,
    debugVars, historyVars, readVars, pc, walk>>

InitConcurrent ==
  \E cls \in {k_regression, 2},
     pack \in {k_cItemsPerBitPackMin, k_cItemsPerBitPackMax},
     n \in 1 .. MaxThreadSamples, pattern \in 0 .. MaxThreadPattern,
     bZeroed \in BOOLEAN :
    LET cSc == GetCountScores(cls) IN
    /\ bDebug = FALSE /\ k_bUseSIMD = FALSE
    /\ cRuntimeClasses = cls /\ iTerm = 0 /\ bitPack = pack
    /\ cTensorBins = MaxBins /\ cSamples = n
    /\ aGradientsAndHessians = GradientsAndHessians(IsClassification(cls), cSc, n)
    /\ aInputData = InputData(pattern, MaxBins, pack, n)
    /\ aCountOccurrences = CountOccurrences(n)
    /\ aWeights = Weights(n)
    /\ weightTotal = SumTo(Weights(n), n)
    /\ aBins = InitialBins(bZeroed, IsClassification(cls), cSc, MaxBins)
    /\ aBinsBefore = aBins
    /\ aBinsPrevCall = aBins
    /\ iCall = 1
    /\ pc = "concurrent"
    /\ LocalsInit
    /\ threads = [t \in Threads |-> ThreadIdle]
    /\ raced = FALSE

\* a thread reads the bin field it is about to add into
ThreadLoad(t) ==
  /\ threads[t].iSample < cSamples
  /\ ~threads[t].bLoaded
  /\ threads' = [threads EXCEPT
                   ![t].bLoaded = TRUE,
                   ![t].value = FieldValue(aBins[ThreadBin(t)], threads[t].iField)]
  /\ UNCHANGED <<sequentialVars, aBins, raced>>

\* a thread writes the sum back and moves to its next field or sample
ThreadStore(t) ==
  /\ threads[t].iSample < cSamples
  /\ threads[t].bLoaded
  /\ aBins' = FieldWrite(aBins, ThreadBin(t), threads[t].iField,
                         FieldSum(threads[t].value, threads[t].iSample, threads[t].iField))
  /\ raced' = (raced \/ \E u \in Threads \ {t} :
                          /\ threads[u].iSample < cSamples
                          /\ threads[u].bLoaded
                          /\ ThreadBin(u) = ThreadBin(t)
                          /\ threads[u].iField = threads[t].iField)
  /\ threads' = [threads EXCEPT
                   ![t] = IF threads[t].iField + 1 < FieldCount
                            THEN [iSample |-> threads[t].iSample,
                                  iField |-> threads[t].iField + 1,
                                  bLoaded |-> FALSE, value |-> 0]
                            ELSE [iSample |-> threads[t].iSample + 1,
                                  iField |-> 0, bLoaded |-> FALSE, value |-> 0]]
  /\ UNCHANGED sequentialVars

NextConcurrent ==
  \/ \E t \in Threads : ThreadLoad(t)
  \/ \E t \in Threads : ThreadStore(t)

SpecConcurrent == InitConcurrent /\ [][NextConcurrent]_vars

ThreadsDone == \A t \in Threads : threads[t].iSample = cSamples

\* the buffer holding the contributions of both calls
BothCalls == PlainLoop(PlainLoop(aBinsBefore, 0, cSamples), 0, cSamples)

\* C12: two unsynchronized calls on one bin buffer are unsafe.  When both
\* have ended the buffer holds the sum of both calls' contributions if no
\* write hit a field the other thread had read and not yet written, and
\* never holds more samples or weight than that sum; an interleaving of the
\* read-add-write steps reaches an end where a bin holds less (a lost
\* update).
C12_LostUpdate ==
  ThreadsDone =>
    /\ ~raced => aBins = BothCalls
    /\ \A iBin \in DOMAIN aBins :
         /\ aBins[iBin].m_cSamples <= BothCalls[iBin].m_cSamples
         /\ aBins[iBin].m_weight <= BothCalls[iBin].m_weight
         /\ aBins[iBin].m_cSamples >= aBinsBefore[iBin].m_cSamples

\* both calls have ended and a bin lacks part of what they added: its
\* sample count, its weight and a gradient sum are all short
C12_Witness ==
  /\ ThreadsDone /\ raced
  /\ \E iBin \in DOMAIN aBins :
       /\ aBins[iBin].m_cSamples < BothCalls[iBin].m_cSamples
       /\ aBins[iBin].m_weight < BothCalls[iBin].m_weight
       /\ aBins[iBin].m_aGradientPairs[0].m_sumGradients
            # BothCalls[iBin].m_aGradientPairs[0].m_sumGradients

----------------------------------------------------------------------------
(* The gradient-sum diagnostic.                                            *)

\* sum of the raw gradients of sample i over its scores
SampleGradientSum(i) ==
  SumOver(0 .. (RunScores - 1),
          [s \in 0 .. (RunScores - 1) |-> aGradientsAndHessians[GradientPosition(i, s)]])

\* sum of the raw gradients of the whole pass
PassGradientSum ==
  SumOver(0 .. (cSamples - 1), [i \in 0 .. (cSamples - 1) |-> SampleGradientSum(i)])

\* where the diagnostic is compiled in and not short-circuited
DiagnosticApplies ==
  /\ bDebug
  /\ RunClassification
  /\ ~(cRuntimeClasses = 2 /\ ~bExpandBinaryLogits)

DiagnosticStep ==
  pc \in {"item_end", "zero_sample_end"} =>
    (pc' = "abort" <=>
       (DiagnosticApplies /\ SampleGradientSum(pCountOccurrences - 1) # 0))

\* C13, as the code has it: the diagnostic is skipped for regression and for
\* binary classification with one logit (class count 2, logits not
\* expanded); for every other classification a debug build requires, after
\* the score loop of each sample, that the raw gradients of that one sample
\* summed over its scores are zero, and halts otherwise.
C13_GradientSumDiagnostic == [][DiagnosticStep]_vars

\* three classes, debug build: the pass halts after the scores of its last
\* sample, whose gradients do not sum to zero
C13_Witness ==
  /\ pc = "abort" /\ bDebug /\ Indexed
  /\ cRuntimeClasses = 3 /\ cSamples = 2
  /\ Len(accumulated) = 2
  /\ SampleGradientSum(0) = 0 /\ SampleGradientSum(1) # 0

\* C13, as stated: the diagnostic is the check of binary classification
\* with one logit and requires the raw gradients of the whole pass to sum
\* to zero; it is not applied to regression.
C13_WholePassBinaryDiagnostic ==
  /\ (bDebug /\ cRuntimeClasses = 2 /\ pc = "done") => PassGradientSum = 0
  /\ (pc = "abort" /\ accumulated # << >>) => cRuntimeClasses = 2
  /\ cRuntimeClasses = k_regression => pc # "abort"

----------------------------------------------------------------------------
\* C14: in a debug build, for every classification run, the class-count
\* walk from the level for 2 classes to the terminal level reaches the
\* accumulator it selects with no assertion of a dispatcher level failing.
C14_DispatchAssertionsHold ==
  (bDebug /\ RunClassification /\ pc = "abort") => AccumulatorCalls # << >>

----------------------------------------------------------------------------
(* Shift amounts of the decode.                                            *)

\* (~StorageDataType { 0 }) >> (k_cBitsForStorageType - cBitsPerItemMax)
MaskShift == k_cBitsForStorageType - cBitsPerItemMax
\* iTensorBinCombined >>= cBitsPerItemMax
FieldShift == cBitsPerItemMax

\* the accumulator is past its setup / about to shift the word
InternalRunning ==
  pc \in {"do_word", "one_last_loop", "do_item", "do_score", "item_end",
          "last_word", "internal_exit"}
AboutToShift ==
  pc = "item_end" /\ ~Failed(GradientSumAsserts(IsClassification(cCompilerClasses)))

\* C15: for every items-per-word value the accumulator accepts, the shift
\* that builds the mask and the shift that advances the word to its next
\* field are both by less than the bit count of the storage word.
C15_ShiftsInRange ==
  /\ InternalRunning => (0 <= MaskShift /\ MaskShift < k_cBitsForStorageType)
  /\ AboutToShift => (0 <= FieldShift /\ FieldShift < k_cBitsForStorageType)

====
